---- MODULE Spec2Model ----
(***************************************************************************)
(* Model of src/components/SettingsModal.tsx: the AI settings dialog with  *)
(* its draft configuration and the sequential, cancellable bulk            *)
(* description generation loop (handleBulkGenerate / handleStop).          *)
(*                                                                         *)
(* JavaScript runs handlers to completion, so every handler and every      *)
(* continuation of the async loop (from the resumption after `await` up to *)
(* the next `await` or the end of the function) is one atomic action.      *)
(***************************************************************************)
EXTENDS Integers, Sequences, FiniteSets, TLC

\* ------------------------------------------------------------------ bounds
MaxLinks == 3      \* size of the owner's link collection
MaxRuns == 2       \* handleBulkGenerate invocations that get past confirm()
MaxCalls == 3      \* generateLinkDescription calls issued in one behaviour

\* --------------------------------------------------------------- universes
NoDesc == ""                         \* a falsy description (!l.description)
OldDesc == "old"                     \* a description present before any run
GenDescs == {"gen"}                  \* strings generateLinkDescription returns

Keys == {"provider", "apiKey", "baseUrl", "model"}   \* keyof AIConfig

\* the one field the bulk generation reads
BatchKeys == {"apiKey"}

\* what the view can pass to handleChange for each key
FieldValues(key) ==
    IF key = "provider" THEN {"gemini", "openai"}
    ELSE IF key = "apiKey" THEN {"", "sk"}
    ELSE IF key = "baseUrl" THEN {"", "url"}
    ELSE {"", "m"}

DefaultConfig == [provider |-> "gemini", apiKey |-> "", baseUrl |-> "", model |-> ""]

IdOf(k) == 10 + k

MkLink(k, d) ==
    [id |-> IdOf(k), title |-> <<"title", k>>, url |-> <<"url", k>>, description |-> d]

\* the collections the owner may hold when the component is constructed
InitialLinks ==
    UNION { { [k \in 1..n |-> MkLink(k, ds[k])] : ds \in [1..n -> {NoDesc, OldDesc}] }
            : n \in {0, MaxLinks} }

\* the collections of the specification with fairness: MaxLinks links of
\* which the first j are described, one collection for each number of targets
LiveLinks ==
    { [k \in 1..MaxLinks |-> MkLink(k, IF k <= j THEN OldDesc ELSE NoDesc)] : j \in 0..MaxLinks }

\* the collection of the draft-centred specification: one link to describe
DraftLinks == { <<MkLink(1, NoDesc)>> }

VARIABLES
    isOpen,        \* prop isOpen (owner state)
    config,        \* prop config (owner state)
    links,         \* prop links (owner state)
    localConfig,   \* useState localConfig
    isProcessing,  \* useState isProcessing
    progress,      \* useState progress {current, total}
    shouldStop,    \* shouldStopRef.current
    runs,          \* one record per started handleBulkGenerate loop
    event          \* the last handler that ran and the outbound calls it made

vars == <<isOpen, config, links, localConfig, isProcessing, progress, shouldStop, runs, event>>

\* ------------------------------------------------------------ pure helpers
\* run is the loop a step belongs to, 0 for a handler of the view
Ev(op, run, calls) == [op |-> op, run |-> run, calls |-> calls]

Call(fn, arg) == [fn |-> fn, arg |-> arg]

Progress(c, t) == [current |-> c, total |-> t]

\* !l.description
Lacks(l) == l.description = NoDesc

\* mutant: the filter keeps every link
MissingLinks_NoFilter(ls) == ls

\* links.filter(l => !l.description)
MissingLinks(ls) == SelectSeq(ls, Lacks)

\* mutant: the map does not compare ids and writes every item
UpdateLink_EveryItem(cur, link, desc) ==
    [k \in 1..Len(cur) |-> [cur[k] EXCEPT !.description = desc]]

\* currentLinks.map(l => l.id === link.id ? { ...l, description: desc } : l)
UpdateLink(cur, link, desc) ==
    [k \in 1..Len(cur) |->
        IF cur[k].id = link.id THEN [cur[k] EXCEPT !.description = desc] ELSE cur[k]]

\* mutant: the progress written runs one ahead
ProgressAfter_Ahead(i, n) == Progress(i + 2, n)

\* mutant: the progress written is the loop index, one behind
ProgressAfter_LoopIndex(i, n) == Progress(i, n)

\* setProgress({ current: i + 1, total: missingLinks.length }) with 0-based i
ProgressAfter(i, n) == Progress(i + 1, n)

\* the for-loop header and the stop check: does iteration i run its body?
LoopRuns(i, n, stop) == i < n /\ ~stop

\* mutant: a failed item is tried again
AfterCatch_Retry(i, n) == i

\* mutant: a failure leaves the loop
AfterCatch_Abort(i, n) == n

\* catch (e) { console.error(...) }: the loop goes on with i++
AfterCatch(i, n) == i + 1

\* mutant: the key check is skipped
HasKey_Always(cfg) == TRUE

\* if (!localConfig.apiKey) is not taken
HasKey(cfg) == cfg.apiKey # ""

\* mutant: the effect leaves the draft as it was
DraftOnOpen_Keep(cfg, draft) == draft

\* setLocalConfig(config) in the effect
DraftOnOpen(cfg, draft) == cfg

\* mutant: the setter builds the draft anew and loses the other fields
SetField_DropOthers(draft, key, value) == [DefaultConfig EXCEPT ![key] = value]

\* setLocalConfig(prev => ({ ...prev, [key]: value }))
SetField(draft, key, value) == [draft EXCEPT ![key] = value]

\* the owner's handlers behind the props
OwnerOnSave(cfg) == cfg

OwnerOnUpdateLinks(ls) == ls

\* ------------------------------------------------------------------- Init
InitWith(collections) ==
    /\ isOpen = FALSE
    /\ config = DefaultConfig
    /\ links \in collections
    /\ localConfig = config
    /\ isProcessing = FALSE
    /\ progress = Progress(0, 0)
    /\ shouldStop = FALSE
    /\ runs = <<>>
    /\ event = Ev("init", 0, <<>>)

Init == InitWith(InitialLinks)

InitDraft == InitWith(DraftLinks)

InitLive == InitWith(LiveLinks)

\* ---------------------------------------------------------------- actions
\* the owner opens the dialog; the effect on [isOpen, config] runs
OpenDialog ==
    /\ ~isOpen
    /\ isOpen' = TRUE
    /\ localConfig' = DraftOnOpen(config, localConfig)
    /\ isProcessing' = FALSE
    /\ progress' = Progress(0, 0)
    /\ shouldStop' = FALSE
    /\ event' = Ev("open", 0, <<>>)
    /\ UNCHANGED <<config, links, runs>>

HandleChange(key, value) ==
    /\ isOpen
    /\ key = "baseUrl" => localConfig.provider = "openai"
    /\ localConfig' = SetField(localConfig, key, value)
    /\ event' = Ev("change", 0, <<Call("handleChange", <<key, value>>)>>)
    /\ UNCHANGED <<isOpen, config, links, isProcessing, progress, shouldStop, runs>>

HandleSave ==
    /\ isOpen
    /\ config' = OwnerOnSave(localConfig)
    /\ isOpen' = FALSE
    /\ event' = Ev("save", 0, <<Call("onSave", localConfig), Call("onClose", <<>>)>>)
    /\ UNCHANGED <<links, localConfig, isProcessing, progress, shouldStop, runs>>

Cancel ==
    /\ isOpen
    /\ isOpen' = FALSE
    /\ event' = Ev("cancel", 0, <<Call("onClose", <<>>)>>)
    /\ UNCHANGED <<config, links, localConfig, isProcessing, progress, shouldStop, runs>>

\* --------------------------------------------------- the bulk generation loop
\* the loop is suspended at `await generateLinkDescription(...)` for item i
InFlight(run) == run.pc = "await"

\* mutant: the loop walks the snapshot from its end
Target_Reversed(run, i) == run.missingLinks[Len(run.missingLinks) - i]

\* the item whose call iteration i (0-based, as in the code) makes
Target(run, i) == run.missingLinks[i + 1]

\* mutant: the for loop does not advance, so the same item is requested again
NextIndex_Same(i) == i

\* i++ of the for loop after the try block completed
NextIndex(i) == i + 1

\* the loop from the header of iteration i up to its await, or past the loop
\* to setIsProcessing(false); `stop` is shouldStopRef.current as the step reads it
Advance(run, i, stop) ==
    IF LoopRuns(i, Len(run.missingLinks), stop)
    THEN [run EXCEPT !.i = i, !.pc = "await",
                     !.attempted = Append(@, Target(run, i).id)]
    ELSE [run EXCEPT !.i = i, !.pc = "done"]

RECURSIVE SumCalls(_, _)
SumCalls(rs, k) == IF k = 0 THEN 0 ELSE Len(rs[k].attempted) + SumCalls(rs, k - 1)

\* generateLinkDescription calls issued so far, over all loops
TotalCalls == SumCalls(runs, Len(runs))

\* a step of run `run` that arrives at the header of iteration i may be taken:
\* the call it would issue is within the bound
WithinBound(run, i, stop) ==
    LoopRuns(i, Len(run.missingLinks), stop) => TotalCalls < MaxCalls

\* alert("...API Key") and return
BulkNoKey ==
    /\ isOpen /\ ~isProcessing
    /\ ~HasKey(localConfig)
    /\ event' = Ev("bulk", 0, <<Call("alert", "nokey")>>)
    /\ UNCHANGED <<isOpen, config, links, localConfig, isProcessing, progress, shouldStop, runs>>

\* alert("...all links have descriptions") and return
BulkNoMissing ==
    /\ isOpen /\ ~isProcessing
    /\ HasKey(localConfig)
    /\ Len(MissingLinks(links)) = 0
    /\ event' = Ev("bulk", 0, <<Call("alert", "nomissing")>>)
    /\ UNCHANGED <<isOpen, config, links, localConfig, isProcessing, progress, shouldStop, runs>>

\* confirm(...) answered with cancel
BulkDeclined ==
    /\ isOpen /\ ~isProcessing
    /\ HasKey(localConfig)
    /\ Len(MissingLinks(links)) # 0
    /\ event' = Ev("bulk", 0, <<Call("confirm", Len(MissingLinks(links)))>>)
    /\ UNCHANGED <<isOpen, config, links, localConfig, isProcessing, progress, shouldStop, runs>>

\* confirm(...) answered with ok: the loop starts and suspends at its first await
BulkStart ==
    /\ isOpen /\ ~isProcessing
    /\ Len(runs) < MaxRuns
    /\ TotalCalls < MaxCalls
    /\ HasKey(localConfig)
    /\ Len(MissingLinks(links)) # 0
    /\ LET missing == MissingLinks(links)
           prog == Progress(0, Len(missing))
           fresh == [missingLinks |-> missing, currentLinks |-> links,
                     snapshot |-> links,
                     i |-> 0, pc |-> "start",
                     attempted |-> <<>>, outcomes |-> <<>>, published |-> <<>>,
                     stopAt |-> -1]
           run == Advance(fresh, 0, FALSE)
       IN /\ runs' = Append(runs, run)
          /\ isProcessing' = InFlight(run)
          /\ shouldStop' = FALSE
          /\ progress' = prog
          /\ event' = Ev("bulk", Len(runs) + 1,
                         <<Call("confirm", Len(missing)),
                           Call("generateLinkDescription", Target(run, 0).id)>>)
    /\ UNCHANGED <<isOpen, config, links, localConfig>>

\* the awaited call of run r returns desc
Resolve(r, desc) ==
    /\ InFlight(runs[r])
    /\ WithinBound(runs[r], NextIndex(runs[r].i), shouldStop)
    /\ LET run == runs[r]
           n == Len(run.missingLinks)
           link == Target(run, run.i)
           cur == UpdateLink(run.currentLinks, link, desc)
           prog == ProgressAfter(run.i, n)
           done == [run EXCEPT !.currentLinks = cur,
                               !.outcomes = Append(@, "ok"),
                               !.published = Append(@, [id |-> link.id, links |-> cur,
                                                        progress |-> prog])]
           nxt == Advance(done, NextIndex(run.i), shouldStop)
       IN /\ runs' = [runs EXCEPT ![r] = nxt]
          /\ links' = OwnerOnUpdateLinks(cur)
          /\ progress' = prog
          /\ isProcessing' = IF InFlight(nxt) THEN isProcessing ELSE FALSE
          /\ event' = Ev("resolve", r, <<Call("onUpdateLinks", cur)>>)
    /\ UNCHANGED <<isOpen, config, localConfig, shouldStop>>

\* the awaited call of run r throws: console.error and on to the next item
Reject(r) ==
    /\ InFlight(runs[r])
    /\ WithinBound(runs[r], AfterCatch(runs[r].i, Len(runs[r].missingLinks)), shouldStop)
    /\ LET run == runs[r]
           n == Len(run.missingLinks)
           link == Target(run, run.i)
           done == [run EXCEPT !.outcomes = Append(@, "fail")]
           nxt == Advance(done, AfterCatch(run.i, n), shouldStop)
       IN /\ runs' = [runs EXCEPT ![r] = nxt]
          /\ isProcessing' = IF InFlight(nxt) THEN isProcessing ELSE FALSE
          /\ event' = Ev("reject", r, <<Call("console.error", link.id)>>)
    /\ UNCHANGED <<isOpen, config, links, localConfig, progress, shouldStop>>

HandleStop ==
    /\ isOpen /\ isProcessing
    /\ shouldStop' = TRUE
    /\ isProcessing' = FALSE
    /\ runs' = [r \in 1..Len(runs) |->
                  IF InFlight(runs[r]) /\ runs[r].stopAt = -1
                  THEN [runs[r] EXCEPT !.stopAt = runs[r].i] ELSE runs[r]]
    /\ event' = Ev("stop", 0, <<>>)
    /\ UNCHANGED <<isOpen, config, links, localConfig, progress>>

\* every handler and loop step but the field setter
Others ==
    \/ OpenDialog
    \/ HandleSave
    \/ Cancel
    \/ BulkNoKey
    \/ BulkNoMissing
    \/ BulkDeclined
    \/ BulkStart
    \/ \E r \in 1..Len(runs) : \E desc \in GenDescs : Resolve(r, desc)
    \/ \E r \in 1..Len(runs) : Reject(r)
    \/ HandleStop

\* the batch-centred specification: every collection, edits of the API key
Next ==
    \/ \E key \in BatchKeys : \E value \in FieldValues(key) : HandleChange(key, value)
    \/ Others

Spec == Init /\ [][Next]_vars

\* the draft-centred specification: edits of every field, one link
NextDraft ==
    \/ \E key \in Keys : \E value \in FieldValues(key) : HandleChange(key, value)
    \/ Others

SpecDraft == InitDraft /\ [][NextDraft]_vars

\* the calls the loops started so far make when every target is attempted
RECURSIVE SumTargets(_, _)
SumTargets(rs, k) == IF k = 0 THEN 0 ELSE Len(rs[k].missingLinks) + SumTargets(rs, k - 1)

\* a start that keeps the calls of every loop within the bound, so that no
\* loop is ever held at an await by the bound
BulkStartReserved ==
    /\ SumTargets(runs, Len(runs)) + Len(MissingLinks(links)) <= MaxCalls
    /\ BulkStart

\* the awaited call of loop r completes, with a description or an error
Complete(r) ==
    /\ r <= Len(runs)
    /\ \/ \E desc \in GenDescs : Resolve(r, desc)
       \/ Reject(r)

OthersLive ==
    \/ OpenDialog
    \/ HandleSave
    \/ Cancel
    \/ BulkNoKey
    \/ BulkNoMissing
    \/ BulkDeclined
    \/ BulkStartReserved
    \/ \E r \in 1..MaxRuns : Complete(r)
    \/ HandleStop

NextLive ==
    \/ \E key \in BatchKeys : \E value \in FieldValues(key) : HandleChange(key, value)
    \/ OthersLive

\* a generation call that is awaited completes: while some loop is at its
\* await, one of the awaited calls eventually returns or throws
CallsComplete == WF_vars(\E r \in 1..MaxRuns : Complete(r))

\* the batch-centred specification with calls that complete
SpecLive == InitLive /\ [][NextLive]_vars /\ CallsComplete

\* ------------------------------------------------------------------ claims
RunIds == 1..Len(runs)

TargetIds(run) == [k \in 1..Len(run.missingLinks) |-> run.missingLinks[k].id]

\* the ids of the attempts of run that returned a description, in order
Succeeded(run) ==
    LET ok(k) == k <= Len(run.outcomes) /\ run.outcomes[k] = "ok"
        F[k \in 0..Len(run.attempted)] ==
            IF k = 0 THEN <<>>
            ELSE IF ok(k) THEN Append(F[k - 1], run.attempted[k]) ELSE F[k - 1]
    IN F[Len(run.attempted)]

PublishedIds(run) == [k \in 1..Len(run.published) |-> run.published[k].id]

NoFailure(run) == \A k \in 1..Len(run.outcomes) : run.outcomes[k] = "ok"

NoStop(run) == run.stopAt = -1

Ended(run) == run.pc = "done"

\* the step just taken was a completion of a call of run r
Completed(r) == event.op \in {"resolve", "reject"} /\ event.run = r

DescriptionOf(ls, id) ==
    LET k == CHOOSE k \in 1..Len(ls) : ls[k].id = id IN ls[k].description

\* C1: a run over N targets on which no stop is issued and whose calls all
\* succeed publishes N times, the progress written with the k-th publish is
\* (k, N), and the progress when the loop ends is (N, N).
C1_AllSucceed ==
    \A r \in RunIds :
        LET run == runs[r]
            n == Len(run.missingLinks)
        IN (NoStop(run) /\ NoFailure(run)) =>
             /\ \A k \in 1..Len(run.published) : run.published[k].progress = Progress(k, n)
             /\ (event.op = "resolve" /\ event.run = r) =>
                    progress = Progress(Len(run.published), n)
             /\ Ended(run) => Len(run.published) = n
             /\ (Ended(run) /\ Completed(r)) => progress = Progress(n, n)

C1_Witness ==
    \E r \in RunIds :
        /\ Ended(runs[r]) /\ Completed(r) /\ NoStop(runs[r]) /\ NoFailure(runs[r])
        /\ Len(runs[r].missingLinks) = MaxLinks
        /\ Len(runs[r].published) = MaxLinks

\* C2 (as claimed): progress.current advances with every attempt, failed or
\* not, so after each completed attempt of a run it is the number of attempts
\* completed, and an unstopped run ends with progress (N, N).
C2_ProgressCountsAttempts ==
    \A r \in RunIds :
        LET run == runs[r]
            n == Len(run.missingLinks)
        IN /\ Completed(r) => progress = Progress(Len(run.outcomes), n)
           /\ (Completed(r) /\ Ended(run) /\ NoStop(run)) => progress = Progress(n, n)

\* C3: a failure does not end the loop: an unstopped run that has ended has
\* attempted every target, and the last collection a run has published holds a
\* description for exactly the targets whose call succeeded.
C3_FailureDoesNotAbort ==
    \A r \in RunIds :
        LET run == runs[r]
            last == run.published[Len(run.published)].links
        IN /\ (Ended(run) /\ NoStop(run)) => run.attempted = TargetIds(run)
           /\ (Ended(run) /\ run.published # <<>>) =>
                 \A k \in 1..Len(run.missingLinks) :
                    LET id == run.missingLinks[k].id
                    IN (DescriptionOf(last, id) # NoDesc) <=>
                          (\E j \in 1..Len(Succeeded(run)) : Succeeded(run)[j] = id)

C3_Witness ==
    \E r \in RunIds :
        /\ Ended(runs[r]) /\ NoStop(runs[r])
        /\ runs[r].outcomes = <<"fail", "ok">>

\* C4 (as claimed): once stop is issued with k items of a run completed, the
\* run attempts at most k + 1 items in all, whatever the user does next.
C4_StopBoundsAttempts ==
    \A r \in RunIds :
        ~NoStop(runs[r]) => Len(runs[r].attempted) <= runs[r].stopAt + 1

\* C5 (as claimed): at most one generateLinkDescription call is in flight.
C5_OneCallInFlight ==
    Cardinality({r \in RunIds : InFlight(runs[r])}) <= 1

AllDescribed(ls) == \A k \in 1..Len(ls) : ls[k].description # NoDesc

\* the outbound calls of the step just taken that go to fn
CallsTo(ev, fn) == {k \in 1..Len(ev.calls) : ev.calls[k].fn = fn}

\* C6: triggering the batch on a collection in which no item lacks a
\* description makes no generation call and no publish and leaves the
\* collection, the processing flag, the progress and the loops as they were.
C6_NothingToDo ==
    [][(event'.op = "bulk" /\ AllDescribed(links)) =>
          /\ CallsTo(event', "generateLinkDescription") = {}
          /\ CallsTo(event', "onUpdateLinks") = {}
          /\ UNCHANGED <<links, isProcessing, progress, runs>>]_vars

C6_Witness ==
    /\ event.op = "bulk"
    /\ event.calls = <<Call("alert", "nomissing")>>
    /\ AllDescribed(links) /\ Len(links) = MaxLinks
    /\ runs = <<>>

\* C7: triggering the batch with no API key in the draft raises the notice
\* and starts nothing: no generation call, no publish, the processing flag
\* false, progress, stop signal and loops unchanged.
C7_NoKeyRejected ==
    [][(event'.op = "bulk" /\ localConfig.apiKey = "") =>
          /\ event'.calls = <<Call("alert", "nokey")>>
          /\ ~isProcessing'
          /\ UNCHANGED <<links, isProcessing, progress, shouldStop, runs>>]_vars

C7_Witness ==
    /\ event.op = "bulk"
    /\ event.calls = <<Call("alert", "nokey")>>
    /\ localConfig.apiKey = ""
    /\ ~AllDescribed(links)

\* C8: save hands the draft to the owner's save exactly once and closes;
\* cancel only closes, calling neither save nor updateLinks; and the draft of
\* the next open is the owner's config, so unsaved edits are gone.
C8_SaveAndCancel ==
    [][/\ event'.op = "save" =>
            /\ event'.calls = <<Call("onSave", localConfig), Call("onClose", <<>>)>>
            /\ config' = localConfig
            /\ ~isOpen'
       /\ event'.op = "cancel" =>
            /\ event'.calls = <<Call("onClose", <<>>)>>
            /\ UNCHANGED <<config, links>>
            /\ ~isOpen'
       /\ event'.op = "open" => localConfig' = config']_vars

\* a cancel that leaves unsaved edits behind, after an earlier save of edits
C8_Witness ==
    /\ event.op = "cancel"
    /\ localConfig # config
    /\ config # DefaultConfig

IsPrefix(a, b) == Len(a) <= Len(b) /\ \A k \in 1..Len(a) : a[k] = b[k]

\* C9 (as claimed): a run attempts its targets in snapshot order and
\* publishes in that order, one publish per completed attempt.
C9_PublishPerAttempt ==
    \A r \in RunIds :
        /\ IsPrefix(runs[r].attempted, TargetIds(runs[r]))
        /\ PublishedIds(runs[r]) = SubSeq(runs[r].attempted, 1, Len(runs[r].outcomes))

\* C9 (amended): a run attempts its targets in snapshot order and publishes
\* in that order, one publish per attempt that succeeded and none for an
\* attempt that failed.
C9_PublishPerSuccess ==
    \A r \in RunIds :
        /\ IsPrefix(runs[r].attempted, TargetIds(runs[r]))
        /\ PublishedIds(runs[r]) = Succeeded(runs[r])
        /\ \A k \in 1..Len(runs[r].published) :
              DescriptionOf(runs[r].published[k].links, runs[r].published[k].id) # NoDesc

C9_Witness ==
    \E r \in RunIds :
        /\ Len(runs[r].published) = MaxLinks
        /\ Completed(r) /\ links = runs[r].published[MaxLinks].links

\* C10 (as claimed): when stop is issued while a call of a run is in flight
\* and that call succeeds, its description is published and the loop then
\* exits at that iteration boundary.
C10_PublishThenStop ==
    \A r \in RunIds :
        LET run == runs[r]
            done == Len(run.outcomes)
        IN (event.op = "resolve" /\ event.run = r /\ run.stopAt = done - 1) =>
              /\ run.published # <<>>
              /\ run.published[Len(run.published)].id = run.attempted[done]
              /\ DescriptionOf(links, run.attempted[done]) # NoDesc
              /\ Ended(run)

\* C11: when every generation call completes, every started loop ends (a
\* loop that has ended stays ended, so: again and again all the loops started
\* so far have ended); the step that ends a loop leaves the processing flag
\* false; and a stop leaves it false at once, while the loop is still at its
\* await.
C11_LoopsEnd ==
    /\ []<>(\A r \in RunIds : Ended(runs[r]))
    /\ [](\A r \in RunIds : (Completed(r) /\ Ended(runs[r])) => ~isProcessing)
    /\ [](event.op = "stop" =>
            (~isProcessing /\ \E r \in RunIds : InFlight(runs[r])))

\* a loop that was stopped at its await has ended
C11_Witness ==
    \E r \in RunIds :
        /\ Completed(r) /\ Ended(runs[r])
        /\ ~NoStop(runs[r])
        /\ Len(runs[r].attempted) < Len(runs[r].missingLinks)
        /\ ~isProcessing

\* C12 (as claimed): an open sets the draft to the owner's config, the
\* progress to (0, 0), the processing flag false and the stop signal clear;
\* and from the reset value the progress is next changed only by the start of
\* a batch, which comes after that open.
C12_ResetOnOpen ==
    [][/\ event'.op = "open" =>
            /\ localConfig' = config'
            /\ progress' = Progress(0, 0)
            /\ ~isProcessing' /\ ~shouldStop'
       /\ (progress = Progress(0, 0) /\ progress' # progress) => event'.op = "bulk"]_vars

\* C13: handleChange(key, value) puts value in the named field of the draft
\* and leaves the other draft fields, the owner's config, the collection,
\* the progress and the processing flag as they were.
C13_SetterFrame ==
    [][event'.op = "change" =>
          LET key == event'.calls[1].arg[1]
              value == event'.calls[1].arg[2]
          IN /\ localConfig'[key] = value
             /\ \A k \in Keys \ {key} : localConfig'[k] = localConfig[k]
             /\ DOMAIN localConfig' = Keys
             /\ UNCHANGED <<config, links, progress, isProcessing>>]_vars

\* an edit of one field of a draft whose other fields all differ from the default
C13_Witness ==
    /\ event.op = "change"
    /\ event.calls[1].arg = <<"model", "m">>
    /\ localConfig = [provider |-> "openai", apiKey |-> "sk", baseUrl |-> "url", model |-> "m"]
    /\ \E r \in RunIds : InFlight(runs[r])

NoDuplicates(seq) ==
    \A j, k \in 1..Len(seq) : seq[j] = seq[k] => j = k

\* C14: a run requests every target at most once, failed or not, so it
\* makes at most N generation calls.
C14_NoRetry ==
    \A r \in RunIds :
        /\ NoDuplicates(runs[r].attempted)
        /\ Len(runs[r].attempted) <= Len(runs[r].missingLinks)
        /\ Len(runs[r].outcomes) <= Len(runs[r].attempted)

\* a run that has ended after each of its calls failed
C14_Witness ==
    \E r \in RunIds :
        /\ Ended(runs[r]) /\ NoStop(runs[r])
        /\ Len(runs[r].missingLinks) = MaxLinks
        /\ \A k \in 1..MaxLinks : runs[r].outcomes[k] = "fail"
        /\ Len(runs[r].outcomes) = MaxLinks

\* C15: progress always satisfies 0 <= current <= total, and total >= 1
\* while the processing flag is true, under every interleaving of the
\* handlers with the steps of one or more loops.
C15_ProgressInRange ==
    /\ 0 <= progress.current
    /\ progress.current <= progress.total
    /\ isProcessing => progress.total >= 1

\* the in-progress panel shown with a progress written by an older loop
\* while two loops are at their awaits
C15_Witness ==
    /\ isProcessing
    /\ progress.current >= 1
    /\ Cardinality({r \in RunIds : InFlight(runs[r])}) = 2
    /\ event.op = "resolve"

\* C16: every collection a run publishes is the collection the run started
\* from, item for item in the same order with the same id, title and url,
\* where only the targets whose call has succeeded so far carry a new
\* description; an item described at the start keeps its description.
C16_PublishFrame ==
    \A r \in RunIds :
        \A k \in 1..Len(runs[r].published) :
            LET pub == runs[r].published[k].links
                snap == runs[r].snapshot
                filled == {runs[r].published[j].id : j \in 1..k}
            IN /\ Len(pub) = Len(snap)
               /\ \A j \in 1..Len(snap) :
                     /\ DOMAIN pub[j] = DOMAIN snap[j]
                     /\ pub[j].id = snap[j].id
                     /\ pub[j].title = snap[j].title
                     /\ pub[j].url = snap[j].url
                     /\ IF snap[j].id \in filled /\ snap[j].description = NoDesc
                        THEN pub[j].description \in GenDescs
                        ELSE pub[j].description = snap[j].description

\* a published collection holding an item described before the run, an item
\* the run has described and a target not yet described
C16_Witness ==
    \E r \in RunIds :
        \E k \in 1..Len(runs[r].published) :
            LET pub == runs[r].published[k].links
            IN /\ \E j \in 1..Len(pub) : pub[j].description = OldDesc
               /\ \E j \in 1..Len(pub) : pub[j].description \in GenDescs
               /\ \E j \in 1..Len(pub) : pub[j].description = NoDesc
               /\ links = pub

\* C17 (as claimed): an item that carries a description in the collection
\* the owner holds carries one in every collection published afterwards.
C17_DescriptionsKept ==
    [][\A k \in 1..Len(links) :
          links[k].description # NoDesc =>
             DescriptionOf(links', links[k].id) # NoDesc]_vars
====
